---- MODULE Spec2Model ----
(***************************************************************************)
(* Model of package ordenJson (src/ordenJson/json-ordering-function.go):   *)
(* the priority table OrdenCampos / ordenCampoMap and the function         *)
(* OrdenarJSON, which re-serialises a JSON object with its top-level keys  *)
(* in table order.                                                         *)
(*                                                                         *)
(* Representation.  A Go string is a sequence of characters.  A character  *)
(* is written as a TLA+ string: either one of the special characters      *)
(* below, or a "plain run" (a word without any special character, kept as  *)
(* one unit).  A text (JSON input, buf, the returned text) is a sequence   *)
(* of characters as well.                                                  *)
(***************************************************************************)
EXTENDS Integers, Sequences, FiniteSets, TLC

(***************************************************************************)
(* Bounds of the model.                                                    *)
(***************************************************************************)
MaxKeys == 3

(***************************************************************************)
(* Characters.                                                             *)
(***************************************************************************)
Quote == "\""
Backslash == "\\"
Newline == "\n"
Space == " "
IndentUnit == "  "
WhiteSpace == {Space, Newline, IndentUnit}
\* characters below 0x20 are not allowed raw inside a JSON string literal
ControlChars == {Newline}

\* A Go string literal without special characters.
Str(w) == <<w>>

(***************************************************************************)
(* The priority table.                                                     *)
(***************************************************************************)
\* The table with the tanner: names first and the cm: names after them.
OrdenCamposTannerFirst ==
  << Str("tanner:tipo-documento"),
     Str("tanner:razon-social-cliente"),
     Str("tanner:rut-cliente"),
     Str("tanner:estado-visado"),
     Str("tanner:estado-vigencia"),
     Str("tanner:fecha-carga"),
     Str("tanner:nombre-doc"),
     Str("tanner:categorias"),
     Str("tanner:sub-categorias"),
     Str("tanner:origen"),
     Str("tanner:relacion"),
     Str("tanner:fecha-termino-vigencia"),
     Str("tanner:observaciones"),
     Str("cm:title"),
     Str("cm:versionType"),
     Str("cm:versionLabel"),
     Str("cm:description") >>

OrdenCampos ==
  << Str("tanner:tipo-documento"),
     Str("tanner:razon-social-cliente"),
     Str("tanner:rut-cliente"),
     Str("tanner:estado-visado"),
     Str("tanner:estado-vigencia"),
     Str("tanner:fecha-carga"),
     Str("tanner:nombre-doc"),
     Str("tanner:categorias"),
     Str("tanner:sub-categorias"),
     Str("tanner:origen"),
     Str("tanner:relacion"),
     Str("tanner:fecha-termino-vigencia"),
     Str("cm:title"),
     Str("cm:versionType"),
     Str("cm:versionLabel"),
     Str("cm:description"),
     Str("tanner:observaciones") >>

\* The map filled with positions counted from 1.
BuildOrdenCampoMapFromOne ==
  [campo \in {OrdenCampos[i] : i \in 1..Len(OrdenCampos)} |->
     CHOOSE i \in 1..Len(OrdenCampos) :
       /\ OrdenCampos[i] = campo
       /\ \A j \in 1..Len(OrdenCampos) : OrdenCampos[j] = campo => j <= i]

\* init(): ordenCampoMap[campo] = i for i, campo := range OrdenCampos
\* (Go indexes from 0).  On a repeated name the last index would win.
BuildOrdenCampoMap ==
  [campo \in {OrdenCampos[i] : i \in 1..Len(OrdenCampos)} |->
     (CHOOSE i \in 1..Len(OrdenCampos) :
        /\ OrdenCampos[i] = campo
        /\ \A j \in 1..Len(OrdenCampos) : OrdenCampos[j] = campo => j <= i) - 1]

(***************************************************************************)
(* Values.  Syntax trees of JSON texts and Go values share one record      *)
(* shape, of which each type uses the fields it needs:                     *)
(*   str      the characters of a string; the literal of a number tree     *)
(*   b        a boolean                                                    *)
(*   num      a float64, <<m, e>> for m * 2^e                              *)
(*   elems    the elements of an array tree or of a slice                  *)
(*   members  the <<key, tree>> members of an object tree, in text order   *)
(*   m        a Go map, a function from its keys to their values           *)
(***************************************************************************)
NilMap == [k \in {} |-> 0]
Blank(type) ==
  [type |-> type, str |-> <<>>, b |-> FALSE, num |-> <<0, 0>>,
   elems |-> <<>>, members |-> <<>>, m |-> NilMap]

\* Syntax trees.
TStr(chars) == [Blank("string") EXCEPT !.str = chars]
TNum(lit) == [Blank("number") EXCEPT !.str = <<lit>>]
TBool(b) == [Blank("bool") EXCEPT !.b = b]
TArr(elems) == [Blank("array") EXCEPT !.elems = elems]
TObj(members) == [Blank("object") EXCEPT !.members = members]
NullTree == Blank("null")

\* Go values, by dynamic type.
NaN == <<0, 1024>>
GoString(chars) == [Blank("string") EXCEPT !.str = chars]
GoFloat(num) == [Blank("float64") EXCEPT !.num = num]
GoBool(b) == [Blank("bool") EXCEPT !.b = b]
GoSlice(elems) == [Blank("slice") EXCEPT !.elems = elems]
GoMap(m) == [Blank("map") EXCEPT !.m = m]
GoNil == Blank("nil")
GoFunc == Blank("func")
GoChan == Blank("chan")
\* an int64, held by its decimal literal
GoInt(lit) == [Blank("int64") EXCEPT !.str = <<lit>>]
\* a map or slice that contains itself
GoCycle == Blank("cycle")

(***************************************************************************)
(* encoding/json as OrdenarJSON uses it: the decoder.                      *)
(*                                                                         *)
(* Parse reads a text into a syntax tree that keeps the order and the      *)
(* repetitions of object members.  Decode turns a tree into the Go value   *)
(* that json.Unmarshal stores in an interface{}.                           *)
(***************************************************************************)
\* JSON number literals of the model.
NumberLits == {"0", "1", "1.0", "123", "9007199254740992", "9007199254740993"}

\* The exact decimal value a number literal denotes, in canonical form.
DecimalValue(lit) ==
  CASE lit = "1.0" -> "1"
    [] OTHER -> lit

\* strconv.ParseFloat(lit, 64): the float64 nearest to the literal, written
\* <<m, e>> for m * 2^e with m odd (or m = 0).  A float64 has a 53 bit
\* mantissa, so 2^53 + 1 rounds (to even) to 2^53.
ParseFloat(lit) ==
  CASE lit = "0" -> <<0, 0>>
    [] lit = "1" -> <<1, 0>>
    [] lit = "1.0" -> <<1, 0>>
    [] lit = "123" -> <<123, 0>>
    [] lit = "9007199254740992" -> <<1, 53>>
    [] lit = "9007199254740993" -> <<1, 53>>

\* strconv.AppendFloat(b, f, 'f', -1, 64) as encoding/json calls it for
\* 1e-6 <= |f| < 1e21: the shortest decimal text that reads back as f.
FormatFloat(f) ==
  CASE f = <<0, 0>> -> "0"
    [] f = <<1, 0>> -> "1"
    [] f = <<123, 0>> -> "123"
    [] f = <<1, 53>> -> "9007199254740992"

\* The character an escape sequence \c denotes inside a string literal.
EscapeCodes == {Quote, Backslash, "n", "u003c", "u00f1"}
Unescape(c) ==
  CASE c = Quote -> Quote
    [] c = Backslash -> Backslash
    [] c = "n" -> Newline
    [] c = "u003c" -> "<"
    [] c = "u00f1" -> "ñ"

ParseFail == [ok |-> FALSE, v |-> NullTree, p |-> 0]
ParseOk(v, p) == [ok |-> TRUE, v |-> v, p |-> p]

RECURSIVE SkipWS(_, _)
SkipWS(txt, p) ==
  IF p <= Len(txt) /\ txt[p] \in WhiteSpace THEN SkipWS(txt, p + 1) ELSE p

\* The characters of a string literal whose opening quote precedes position p.
RECURSIVE ParseChars(_, _, _)
ParseChars(txt, p, acc) ==
  IF p > Len(txt) THEN ParseFail
  ELSE IF txt[p] = Quote THEN ParseOk(TStr(acc), p + 1)
  ELSE IF txt[p] = Backslash
       THEN IF p + 1 <= Len(txt) /\ txt[p + 1] \in EscapeCodes
            THEN ParseChars(txt, p + 2, Append(acc, Unescape(txt[p + 1])))
            ELSE ParseFail
  ELSE IF txt[p] \in ControlChars THEN ParseFail
  ELSE ParseChars(txt, p + 1, Append(acc, txt[p]))

RECURSIVE ParseValue(_, _)
RECURSIVE ParseMembers(_, _, _)
RECURSIVE ParseElements(_, _, _)

\* "key" : value { , "key" : value } "}" starting at p.
ParseMembers(txt, p0, acc) ==
  LET p == SkipWS(txt, p0) IN
  IF p > Len(txt) \/ txt[p] # Quote THEN ParseFail
  ELSE LET k == ParseChars(txt, p + 1, <<>>) IN
       IF ~k.ok THEN ParseFail
       ELSE LET c == SkipWS(txt, k.p) IN
            IF c > Len(txt) \/ txt[c] # ":" THEN ParseFail
            ELSE LET r == ParseValue(txt, c + 1) IN
                 IF ~r.ok THEN ParseFail
                 ELSE LET q == SkipWS(txt, r.p)
                          acc2 == Append(acc, <<k.v.str, r.v>>)
                      IN  IF q > Len(txt) THEN ParseFail
                          ELSE IF txt[q] = "}"
                               THEN ParseOk(TObj(acc2), q + 1)
                          ELSE IF txt[q] = ","
                               THEN ParseMembers(txt, q + 1, acc2)
                          ELSE ParseFail

\* value { , value } "]" starting at p.
ParseElements(txt, p0, acc) ==
  LET r == ParseValue(txt, p0) IN
  IF ~r.ok THEN ParseFail
  ELSE LET q == SkipWS(txt, r.p)
           acc2 == Append(acc, r.v)
       IN  IF q > Len(txt) THEN ParseFail
           ELSE IF txt[q] = "]"
                THEN ParseOk(TArr(acc2), q + 1)
           ELSE IF txt[q] = ","
                THEN ParseElements(txt, q + 1, acc2)
           ELSE ParseFail

ParseValue(txt, p0) ==
  LET p == SkipWS(txt, p0) IN
  IF p > Len(txt) THEN ParseFail
  ELSE IF txt[p] = "{"
       THEN LET q == SkipWS(txt, p + 1) IN
            IF q <= Len(txt) /\ txt[q] = "}"
            THEN ParseOk(TObj(<<>>), q + 1)
            ELSE ParseMembers(txt, p + 1, <<>>)
  ELSE IF txt[p] = "["
       THEN LET q == SkipWS(txt, p + 1) IN
            IF q <= Len(txt) /\ txt[q] = "]"
            THEN ParseOk(TArr(<<>>), q + 1)
            ELSE ParseElements(txt, p + 1, <<>>)
  ELSE IF txt[p] = Quote
       THEN LET s == ParseChars(txt, p + 1, <<>>) IN
            IF s.ok THEN ParseOk(s.v, s.p) ELSE ParseFail
  ELSE IF txt[p] \in NumberLits
       THEN ParseOk(TNum(txt[p]), p + 1)
  ELSE IF txt[p] = "true" THEN ParseOk(TBool(TRUE), p + 1)
  ELSE IF txt[p] = "false" THEN ParseOk(TBool(FALSE), p + 1)
  ELSE IF txt[p] = "null" THEN ParseOk(NullTree, p + 1)
  ELSE ParseFail

\* The whole text is one JSON value, surrounded by optional white space
\* (the scanner's checkValid pass; anything else is a *json.SyntaxError).
Parse(txt) ==
  LET r == ParseValue(txt, 1) IN
  IF r.ok /\ SkipWS(txt, r.p) > Len(txt) THEN r ELSE ParseFail

\* The keys of an object tree, in text order, and the tree of the last
\* member named k.
TreeKeys(tree) == [j \in 1..Len(tree.members) |-> tree.members[j][1]]
\* The reading in which the first member of a name wins.
FirstMember(tree, k) ==
  tree.members[CHOOSE j \in 1..Len(tree.members) :
                 /\ tree.members[j][1] = k
                 /\ \A h \in 1..Len(tree.members) : tree.members[h][1] = k => j <= h][2]
LastMember(tree, k) ==
  tree.members[CHOOSE j \in 1..Len(tree.members) :
                 /\ tree.members[j][1] = k
                 /\ \A h \in 1..Len(tree.members) : tree.members[h][1] = k => h <= j][2]

\* json.Unmarshal into an interface{}: an object becomes a
\* map[string]interface{} (a repeated key keeps its last value, the order of
\* the members is lost), an array a []interface{}, a number a float64.
RECURSIVE Decode(_)
Decode(tree) ==
  CASE tree.type = "object" ->
         GoMap([k \in {tree.members[j][1] : j \in 1..Len(tree.members)} |->
                  Decode(LastMember(tree, k))])
    [] tree.type = "array" ->
         GoSlice([j \in 1..Len(tree.elems) |-> Decode(tree.elems[j])])
    [] tree.type = "number" -> GoFloat(ParseFloat(tree.str[1]))
    [] tree.type = "string" -> GoString(tree.str)
    [] tree.type = "bool" -> GoBool(tree.b)
    [] tree.type = "null" -> GoNil

\* json.Unmarshal([]byte(v), &datos) with datos a nil map[string]interface{}:
\* a syntax error for a text that is not one JSON value; a JSON object fills
\* a new map; the JSON literal null leaves datos nil and is no error; every
\* other JSON value is an *json.UnmarshalTypeError.
Unmarshal(txt) ==
  LET r == Parse(txt) IN
  IF ~r.ok THEN [err |-> "SyntaxError", datos |-> NilMap]
  ELSE IF r.v.type = "object" THEN [err |-> "nil", datos |-> Decode(r.v).m]
  ELSE IF r.v.type = "null" THEN [err |-> "nil", datos |-> NilMap]
  ELSE [err |-> "UnmarshalTypeError", datos |-> NilMap]

(***************************************************************************)
(* encoding/json as OrdenarJSON uses it: the encoder.                      *)
(***************************************************************************)
\* The characters of the model's map keys in increasing byte order; Go
\* compares strings byte by byte.
Collation ==
  << Quote, "<", Backslash, "a", "aaa", "b", "c", "cm:title", "extra:field1",
     "tanner:rut-cliente", "tanner:tipo-documento", "zzz", "ñ" >>
CharRank(c) == CHOOSE j \in 1..Len(Collation) : Collation[j] = c

RECURSIVE StrLess(_, _)
StrLess(a, b) ==
  IF b = <<>> THEN FALSE
  ELSE IF a = <<>> THEN TRUE
  ELSE IF Head(a) = Head(b) THEN StrLess(Tail(a), Tail(b))
  ELSE CharRank(Head(a)) < CharRank(Head(b))

\* The elements of a finite set of strings in increasing order.
RECURSIVE SortedStrings(_)
SortedStrings(S) ==
  IF S = {} THEN <<>>
  ELSE LET m == CHOOSE x \in S : \A y \in S \ {x} : StrLess(x, y)
       IN  <<m>> \o SortedStrings(S \ {m})

\* The string literal with the backslash left as it is.
EscapeCharNoBackslash(c) ==
  CASE c = Quote -> <<Backslash, Quote>>
    [] c = Newline -> <<Backslash, "n">>
    [] c = "<" -> <<Backslash, "u003c">>
    [] OTHER -> <<c>>

\* The encoder's string literal (escapeHTML is on for json.Marshal).
EscapeChar(c) ==
  CASE c = Quote -> <<Backslash, Quote>>
    [] c = Backslash -> <<Backslash, Backslash>>
    [] c = Newline -> <<Backslash, "n">>
    [] c = "<" -> <<Backslash, "u003c">>
    [] OTHER -> <<c>>

RECURSIVE EscapeChars(_)
EscapeChars(str) ==
  IF str = <<>> THEN <<>> ELSE EscapeChar(Head(str)) \o EscapeChars(Tail(str))

MarshalString(str) == <<Quote>> \o EscapeChars(str) \o <<Quote>>

MarshalOk(txt) == [err |-> "nil", text |-> txt]
MarshalErr(e) == [err |-> e, text |-> <<>>]

\* json.Marshal(v) for the dynamic types of the model.  A map is written
\* with its keys sorted; a func or chan value is an UnsupportedTypeError; a
\* NaN and a value that contains itself are an UnsupportedValueError.
RECURSIVE Marshal(_)
RECURSIVE MarshalSlice(_, _)
RECURSIVE MarshalMap(_, _, _)

MarshalSlice(elems, j) ==
  IF j > Len(elems) THEN MarshalOk(<<>>)
  ELSE LET e == Marshal(elems[j])
           rest == MarshalSlice(elems, j + 1)
       IN  IF e.err # "nil" THEN e
           ELSE IF rest.err # "nil" THEN rest
           ELSE MarshalOk((IF j > 1 THEN <<",">> ELSE <<>>) \o e.text \o rest.text)

MarshalMap(m, keys, j) ==
  IF j > Len(keys) THEN MarshalOk(<<>>)
  ELSE LET e == Marshal(m[keys[j]])
           rest == MarshalMap(m, keys, j + 1)
       IN  IF e.err # "nil" THEN e
           ELSE IF rest.err # "nil" THEN rest
           ELSE MarshalOk((IF j > 1 THEN <<",">> ELSE <<>>)
                          \o MarshalString(keys[j]) \o <<":">> \o e.text \o rest.text)

Marshal(v) ==
  CASE v.type = "string" -> MarshalOk(MarshalString(v.str))
    [] v.type = "float64" ->
         IF v.num = NaN THEN MarshalErr("UnsupportedValueError")
         ELSE MarshalOk(<<FormatFloat(v.num)>>)
    [] v.type = "bool" -> MarshalOk(<<IF v.b THEN "true" ELSE "false">>)
    [] v.type = "int64" -> MarshalOk(v.str)
    [] v.type = "nil" -> MarshalOk(<<"null">>)
    [] v.type = "slice" ->
         LET r == MarshalSlice(v.elems, 1) IN
         IF r.err # "nil" THEN r ELSE MarshalOk(<<"[">> \o r.text \o <<"]">>)
    [] v.type = "map" ->
         LET r == MarshalMap(v.m, SortedStrings(DOMAIN v.m), 1) IN
         IF r.err # "nil" THEN r ELSE MarshalOk(<<"{">> \o r.text \o <<"}">>)
    [] v.type \in {"func", "chan"} -> MarshalErr("UnsupportedTypeError")
    [] v.type = "cycle" -> MarshalErr("UnsupportedValueError")

\* json.Indent(&resultado, src, "", "  "): a scanner pass that copies string
\* literals unchanged, drops white space, and writes a newline and depth
\* indent units after "{", "[" and ",", before a closing bracket of a
\* non-empty value, and a space after ":".
RECURSIVE IndentUnits(_)
IndentUnits(depth) ==
  IF depth = 0 THEN <<>> ELSE <<IndentUnit>> \o IndentUnits(depth - 1)
NewlineIndent(depth) == <<Newline>> \o IndentUnits(depth)

RECURSIVE IndentFrom(_, _, _, _, _)
IndentFrom(src, p, depth, needIndent, inString) ==
  IF p > Len(src) THEN <<>>
  ELSE LET c == src[p] IN
    IF inString
    THEN IF c = Backslash /\ p < Len(src)
         THEN <<c, src[p + 1]>> \o IndentFrom(src, p + 2, depth, FALSE, TRUE)
         ELSE <<c>> \o IndentFrom(src, p + 1, depth, FALSE, c # Quote)
    ELSE IF c \in WhiteSpace THEN IndentFrom(src, p + 1, depth, needIndent, FALSE)
    ELSE LET opened == needIndent /\ c \notin {"}", "]"}
             d == IF opened THEN depth + 1 ELSE depth
             pre == IF opened THEN NewlineIndent(d) ELSE <<>>
         IN
         IF c \in {"{", "["}
         THEN pre \o <<c>> \o IndentFrom(src, p + 1, d, TRUE, FALSE)
         ELSE IF c = ","
         THEN pre \o <<c>> \o NewlineIndent(d) \o IndentFrom(src, p + 1, d, FALSE, FALSE)
         ELSE IF c = ":"
         THEN pre \o <<c, Space>> \o IndentFrom(src, p + 1, d, FALSE, FALSE)
         ELSE IF c \in {"}", "]"}
         THEN IF needIndent
              THEN <<c>> \o IndentFrom(src, p + 1, d, FALSE, FALSE)
              ELSE NewlineIndent(d - 1) \o <<c>> \o IndentFrom(src, p + 1, d - 1, FALSE, FALSE)
         ELSE pre \o <<c>> \o IndentFrom(src, p + 1, d, FALSE, c = Quote)

\* The text decoded and encoded anew before it is indented.
IndentByReencoding(src) ==
  IF Parse(src).ok
  THEN [err |-> "nil",
        text |-> IndentFrom(Marshal(Decode(Parse(src).v)).text, 1, 0, FALSE, FALSE)]
  ELSE [err |-> "SyntaxError", text |-> <<>>]

Indent(src) ==
  IF Parse(src).ok THEN [err |-> "nil", text |-> IndentFrom(src, 1, 0, FALSE, FALSE)]
  ELSE [err |-> "SyntaxError", text |-> <<>>]

(***************************************************************************)
(* The callers' inputs.  An input is a Go interface{} value: its dynamic   *)
(* type typ, and its value (text for a string, m for a map).               *)
(***************************************************************************)
TString == "string"
TMap == "map[string]interface {}"
Input(typ, text, m) == [typ |-> typ, text |-> text, m |-> m, isNil |-> FALSE]
NoInput == Input("none", <<>>, NilMap)

\* var m map[string]interface{}; OrdenarJSON(m): a map that was never made.
\* Its length is 0 and a range over it visits nothing.
NilMapInput == [Input(TMap, <<>>, NilMap) EXCEPT !.isNil = TRUE]

\* Top-level keys of the inputs: three table entries (listed against their
\* priority) and two names that are not in the table.
TopKeys ==
  << Str("tanner:rut-cliente"), Str("zzz"), Str("tanner:tipo-documento"), Str("aaa"),
     Str("cm:title") >>

\* Values of the input texts, as syntax trees.
TextVals ==
  << TStr(Str("x")),
     TNum("123"),
     TBool(TRUE),
     NullTree,
     TArr(<<TNum("1.0"), TStr(Str("dos")), TBool(FALSE)>>),
     TObj(<< <<Str("b"), TNum("123")>>, <<Str("a"), TStr(Str("x"))>> >>),
     TNum("9007199254740993"),
     TStr(<<"a", Backslash, "b", Quote, "c", "ñ", Newline, "<">>) >>
Rotations == {0, 3, 5}

\* The text a producer writes for a tree: members and elements in the
\* tree's order, a space after ":" and ",".
RECURSIVE WriteTree(_)
RECURSIVE WriteList(_, _, _)
WriteEscaped(c) ==
  CASE c = Quote -> <<Backslash, Quote>>
    [] c = Backslash -> <<Backslash, Backslash>>
    [] c = Newline -> <<Backslash, "n">>
    [] c = "ñ" -> <<Backslash, "u00f1">>
    [] OTHER -> <<c>>
RECURSIVE WriteChars(_)
WriteChars(str) ==
  IF str = <<>> THEN <<>> ELSE WriteEscaped(Head(str)) \o WriteChars(Tail(str))
WriteString(str) == <<Quote>> \o WriteChars(str) \o <<Quote>>
WriteList(items, j, isObject) ==
  IF j > Len(items) THEN <<>>
  ELSE (IF j > 1 THEN <<",", Space>> ELSE <<>>)
       \o (IF isObject
           THEN WriteString(items[j][1]) \o <<":", Space>> \o WriteTree(items[j][2])
           ELSE WriteTree(items[j]))
       \o WriteList(items, j + 1, isObject)
WriteTree(tree) ==
  CASE tree.type = "string" -> WriteString(tree.str)
    [] tree.type = "number" -> tree.str
    [] tree.type = "bool" -> <<IF tree.b THEN "true" ELSE "false">>
    [] tree.type = "null" -> <<"null">>
    [] tree.type = "array" -> <<"[">> \o WriteList(tree.elems, 1, FALSE) \o <<"]">>
    [] tree.type = "object" -> <<"{">> \o WriteList(tree.members, 1, TRUE) \o <<"}">>

\* Object texts: up to MaxKeys members, keys drawn from TopKeys (with
\* repetition), the member at position j holding value j + r of TextVals.
KeySeqs == UNION {[1..n -> 1..Len(TopKeys)] : n \in 0..MaxKeys}
ObjectTree(ks, r) ==
  TObj([j \in 1..Len(ks) |->
          <<TopKeys[ks[j]], TextVals[((j - 1 + r) % Len(TextVals)) + 1]>>])
ObjectTexts == {WriteTree(ObjectTree(ks, r)) : ks \in KeySeqs, r \in Rotations}

\* Texts that are not one JSON value (the cases of TestJSONMalformado and
\* TestOrdenarJSON_InvalidJSONString, a trailing comma, an empty text).
MalformedTexts ==
  { <<"{", Quote, "tanner:tipo-documento", Quote, ":", Space, Quote, "test", Quote>>,
    <<"{", "tanner:tipo-documento", ":", Space, Quote, "test", Quote, "}">>,
    <<"{", Quote, "cm:title", Quote, ":", Space, Quote, "test">>,
    <<"cadena", Space, "no", Space, "válida">>,
    <<"{", Quote, "aaa", Quote, ":", "1", ",", "}">>,
    <<"{", "}", "{", "}">>,
    <<>> }

\* Texts that are one JSON value, but not an object.
NonObjectTexts ==
  { <<"null">>, <<Space, "null", Newline>>, <<"[", "1", ",", "123", "]">>, <<"123">>,
    <<Quote, "x", Quote>>, <<"true">> }

TextInputs ==
  {Input(TString, t, NilMap) : t \in ObjectTexts \cup MalformedTexts \cup NonObjectTexts}

\* Values of the input maps: what a caller may store in an interface{}.
GoVals ==
  << GoString(Str("x")),
     GoFloat(<<123, 0>>),
     GoNil,
     GoMap([k \in {Str("c"), Str("b")} |-> GoFloat(<<1, 0>>)]),
     GoString(<<"<", Quote, "ñ">>),
     GoSlice(<<GoBool(TRUE), GoFloat(<<1, 0>>)>>),
     GoFunc,
     GoSlice(<<GoBool(TRUE), GoChan>>),
     GoCycle,
     GoFloat(NaN) >>
MapRotations == {0, 2, 4, 6, 8}

\* Input maps: up to MaxKeys of the TopKeys, key number j holding value
\* j + r of GoVals.
KeySets == {S \in SUBSET (1..Len(TopKeys)) : Cardinality(S) <= MaxKeys}
MapOf(S, r) ==
  [k \in {TopKeys[j] : j \in S} |->
     GoVals[(((CHOOSE j \in S : TopKeys[j] = k) - 1 + r) % Len(GoVals)) + 1]]
MapInputs == {Input(TMap, <<>>, MapOf(S, r)) : S \in KeySets, r \in MapRotations}

\* Inputs of any other dynamic type (nil is the nil interface).
OtherTypes == {"int", "nil", "ordenJson.DocumentMetadata", "[]uint8", "map[string]string"}
OtherInputs == {Input(t, <<>>, NilMap) : t \in OtherTypes}

\* Inputs whose keys and values hold the characters a JSON string must
\* escape and a letter outside ASCII (TestCaracteresEspecialesEnValores),
\* as maps and as a text.
SpecialKey == <<"a", Backslash, "b", Quote, "c", "ñ", Newline>>
SpecialValue == <<Backslash, Quote, "ñ", Newline, "x", Backslash>>
SpecialMaps ==
  { [k \in {SpecialKey} |-> GoString(SpecialValue)],
    [k \in {SpecialKey, Str("cm:title"), <<"<", Quote>>} |-> GoString(k)] }
SpecialTexts ==
  { WriteTree(TObj(<< <<SpecialKey, TStr(SpecialValue)>>,
                      <<Str("tanner:tipo-documento"), TStr(SpecialKey)>> >>)) }
SpecialInputs ==
  {Input(TMap, <<>>, m) : m \in SpecialMaps}
    \cup {Input(TString, t, NilMap) : t \in SpecialTexts}

\* Maps holding Go integers, which json.Marshal writes digit by digit.
IntegerMaps ==
  { [k \in {Str("aaa")} |-> GoInt("9007199254740993")],
    [k \in {Str("tanner:rut-cliente"), Str("zzz")} |->
       IF k = Str("zzz") THEN GoInt("9007199254740993") ELSE GoInt("123")] }
IntegerInputs == {Input(TMap, <<>>, m) : m \in IntegerMaps}

\* Keys holding the values a filter of empty fields would drop: the empty
\* string, null, false, zero, an empty array, an empty object.
EmptyValueTexts ==
  { WriteTree(TObj(<< <<Str("zzz"), TStr(<<>>)>>,
                      <<Str("tanner:rut-cliente"), NullTree>>,
                      <<Str("cm:title"), TBool(FALSE)>> >>)),
    WriteTree(TObj(<< <<Str("aaa"), TNum("0")>>,
                      <<Str("tanner:tipo-documento"), TArr(<<>>)>>,
                      <<Str("cm:title"), TObj(<<>>)>> >>)) }
EmptyValueMaps ==
  { [k \in {Str("zzz"), Str("tanner:rut-cliente"), Str("cm:title")} |->
       IF k = Str("zzz") THEN GoString(<<>>)
       ELSE IF k = Str("cm:title") THEN GoBool(FALSE) ELSE GoNil],
    [k \in {Str("aaa"), Str("tanner:tipo-documento"), Str("cm:title")} |->
       IF k = Str("aaa") THEN GoFloat(<<0, 0>>)
       ELSE IF k = Str("cm:title") THEN GoMap(NilMap) ELSE GoSlice(<<>>)],
    [k \in {Str("tanner:origen")} |-> GoInt("0")] }
EmptyValueInputs ==
  {Input(TMap, <<>>, m) : m \in EmptyValueMaps}
    \cup {Input(TString, t, NilMap) : t \in EmptyValueTexts}

Inputs ==
  TextInputs \cup MapInputs \cup OtherInputs \cup SpecialInputs \cup IntegerInputs
    \cup EmptyValueInputs \cup {NilMapInput}

\* The maps a caller may pass to OrdenarMapaComoDocumentoMetadata, whose
\* parameter is a map[string]interface{}.
MapaInputs == {in \in Inputs : in.typ = TMap}

(***************************************************************************)
(* DocumentMetadata.  A record is the sequence of its seventeen string     *)
(* fields in declaration order; DocumentMetadataTags holds the json tag of *)
(* each field.                                                             *)
(***************************************************************************)
\* The tags with the one of RUTCliente spelt differently from the table.
DocumentMetadataTagsOneOff ==
  [f \in 1..Len(OrdenCampos) |->
     IF f = 3 THEN Str("tanner:rut_cliente") ELSE OrdenCampos[f]]

DocumentMetadataTags ==
  << Str("tanner:tipo-documento"),
     Str("tanner:razon-social-cliente"),
     Str("tanner:rut-cliente"),
     Str("tanner:estado-visado"),
     Str("tanner:estado-vigencia"),
     Str("tanner:fecha-carga"),
     Str("tanner:nombre-doc"),
     Str("tanner:categorias"),
     Str("tanner:sub-categorias"),
     Str("tanner:origen"),
     Str("tanner:relacion"),
     Str("tanner:fecha-termino-vigencia"),
     Str("cm:title"),
     Str("cm:versionType"),
     Str("cm:versionLabel"),
     Str("cm:description"),
     Str("tanner:observaciones") >>

\* The zero value of DocumentMetadata.
NoMetadata == [f \in 1..Len(DocumentMetadataTags) |-> <<>>]

\* The loop of OrdenarDocumentoMetadata with the test of line 98 applied to
\* the trimmed value: a field of white space only is left out as well.
DocumentoADatosSinBlancos(metadata) ==
  LET campos == {f \in 1..Len(DocumentMetadataTags) :
                   /\ DocumentMetadataTags[f] # <<>>
                   /\ \E j \in 1..Len(metadata[f]) : metadata[f][j] \notin WhiteSpace} IN
  [tag \in {DocumentMetadataTags[f] : f \in campos} |->
     GoString(metadata[CHOOSE f \in campos :
                         /\ DocumentMetadataTags[f] = tag
                         /\ \A g \in campos : DocumentMetadataTags[g] = tag => g <= f])]

\* Lines 81-101: datos[jsonTag] = field.String() for every field that has a
\* json tag and whose value is not "".  The fields are visited in
\* declaration order, so the last field of a tag would win.
DocumentoADatos(metadata) ==
  LET campos == {f \in 1..Len(DocumentMetadataTags) :
                   DocumentMetadataTags[f] # <<>> /\ metadata[f] # <<>>} IN
  [tag \in {DocumentMetadataTags[f] : f \in campos} |->
     GoString(metadata[CHOOSE f \in campos :
                         /\ DocumentMetadataTags[f] = tag
                         /\ \A g \in campos : DocumentMetadataTags[g] = tag => g <= f])]

\* Records: up to MaxKeys of the fields TipoDocumento, RUTCliente, CmTitle
\* and Observaciones are set (to a blank, a word, a text with a quote), the
\* other fields are "".
FieldVals == << <<Space>>, Str("x"), <<"a", Quote, "b">> >>
SetFields == {S \in SUBSET {17, 13, 3, 1} : Cardinality(S) <= MaxKeys}
DocumentOf(S, r) ==
  [f \in 1..Len(DocumentMetadataTags) |->
     IF f \in S THEN FieldVals[((f + r) % Len(FieldVals)) + 1] ELSE <<>>]
Documents == {DocumentOf(S, r) : S \in SetFields, r \in 1..Len(FieldVals)}

(***************************************************************************)
(* The state: the package variable ordenCampoMap, and one invocation of    *)
(* OrdenarJSON with its locals.  prev is the result of the preceding       *)
(* invocation when the caller has repeated the call on the same input.     *)
(* fns lists the exported functions the caller has called on this input,   *)
(* with OrdenarJSON(resultado) for a call of OrdenarJSON on the text the   *)
(* preceding call returned and OrdenarJSON(datos) for one on the mapping   *)
(* the input text decodes to.  metadata is the argument of                 *)
(* OrdenarDocumentoMetadata.  peer holds the locals of a second goroutine  *)
(* while this one runs.                                                    *)
(***************************************************************************)
VARIABLES ordenCampoMap, pc, input, datos, claves, i, buf, ret, ran, prev,
          fns, metadata, peer

vars == <<ordenCampoMap, pc, input, datos, claves, i, buf, ret, ran, prev,
          fns, metadata, peer>>

ErrNil == "nil"
Result(text, err, msg) == [text |-> text, err |-> err, msg |-> msg]
NoResult == Result(<<>>, "none", <<>>)

\* The locals of a goroutine that is in no call.
IdleLocals ==
  [pc |-> "idle", input |-> NoInput, datos |-> NilMap, claves |-> <<>>, i |-> 0,
   buf |-> <<>>, ret |-> NoResult, ran |-> {}, prev |-> NoResult, fns |-> <<>>,
   metadata |-> NoMetadata]

\* obtenerOrdenCampo without the ok test of the lookup: a missing name
\* yields the zero value of the map's element type.
obtenerOrdenCampoZeroValue(campo) ==
  IF campo \in DOMAIN ordenCampoMap THEN ordenCampoMap[campo] ELSE 0

\* obtenerOrdenCampo: the position in the table, or its length.
obtenerOrdenCampo(campo) ==
  IF campo \in DOMAIN ordenCampoMap THEN ordenCampoMap[campo] ELSE Len(OrdenCampos)

\* The static type of the parameter instead of the value's dynamic type.
FormatStaticType(typ) == "interface {}"

\* fmt's %T: the dynamic type of the value, <nil> for the nil interface.
FormatT(typ) == IF typ = "nil" THEN "<nil>" ELSE typ

\* The sequences that hold each element of the finite set S once.
Orderings(S) ==
  LET n == Cardinality(S) IN
  {s \in [1..n -> S] : \A a, b \in 1..n : a # b => s[a] # s[b]}

\* claves after the loop of lines 127-130, had the slice been made with
\* len(datos) elements instead of capacity len(datos): the appended keys
\* follow len(datos) empty strings.
RangeOrdersAfterZeroValues(m) ==
  {[j \in 1..Cardinality(DOMAIN m) |-> <<>>] \o s : s \in Orderings(DOMAIN m)}

\* The orders in which a range over a Go map may visit its keys: the order
\* is unspecified and differs from one run to the next.
RangeOrders(m) == Orderings(DOMAIN m)

\* m[k] for a Go map: the zero value (a nil interface{}) for a missing key.
MapIndex(m, k) == IF k \in DOMAIN m THEN m[k] ELSE GoNil

\* The comparison turned round.
LessDescending(a, b) == obtenerOrdenCampo(a) > obtenerOrdenCampo(b)

\* The less function given to sort.Slice.
Less(a, b) == obtenerOrdenCampo(a) < obtenerOrdenCampo(b)

\* The sort left out: claves stays as the range built it.
SortSliceOmitted(s) == {s}

\* sort.Slice(claves, less): a permutation of claves ordered by less.
\* sort.Slice does not promise to be stable, so elements neither of which
\* is less than the other may end in either order.
SortSlice(s) ==
  {q \in [1..Len(s) -> {s[j] : j \in 1..Len(s)}] :
     /\ \A k \in {s[j] : j \in 1..Len(s)} :
          Cardinality({j \in 1..Len(s) : q[j] = k}) = Cardinality({j \in 1..Len(s) : s[j] = k})
     /\ \A a, b \in 1..Len(q) : a < b => ~Less(q[b], q[a])}

Init ==
  /\ ordenCampoMap = BuildOrdenCampoMap
  /\ pc = "idle"
  /\ input = NoInput
  /\ datos = NilMap
  /\ claves = <<>>
  /\ i = 0
  /\ buf = <<>>
  /\ ret = NoResult
  /\ ran = {}
  /\ prev = NoResult
  /\ fns = <<>>
  /\ metadata = NoMetadata
  /\ peer = IdleLocals

\* A return of the text written so far together with the error.
FailWithPartialText(err, msg) ==
  /\ ret' = Result(buf, err, msg)
  /\ pc' = "done"

\* A failure that is swallowed: return "", nil.
FailWithNilError(err, msg) ==
  /\ ret' = Result(<<>>, ErrNil, <<>>)
  /\ pc' = "done"

\* return "", err
Fail(err, msg) ==
  /\ ret' = Result(<<>>, err, msg)
  /\ pc' = "done"

\* OrdenarJSON(in), lines 108-124: the type switch on the input.
Enter(in) ==
  /\ input' = in
  /\ claves' = <<>>
  /\ i' = 0
  /\ buf' = <<>>
  /\ ran' = {}
  /\ IF in.typ = TString
     THEN LET u == Unmarshal(in.text) IN
          /\ datos' = u.datos
          /\ IF u.err # ErrNil
             THEN Fail(u.err, <<>>)
             ELSE ret' = NoResult /\ pc' = "range"
     ELSE IF in.typ = TMap
     THEN /\ datos' = in.m
          /\ ret' = NoResult
          /\ pc' = "range"
     ELSE /\ datos' = NilMap
          /\ Fail("errorString", <<"tipo de entrada no soportado: ", FormatT(in.typ)>>)
  /\ UNCHANGED <<ordenCampoMap, peer>>

\* A caller invokes OrdenarJSON.
Call ==
  /\ pc = "idle"
  /\ \E in \in Inputs : Enter(in)
  /\ fns' = <<"OrdenarJSON">>
  /\ metadata' = NoMetadata
  /\ prev' = NoResult

\* OrdenarMapaComoDocumentoMetadata(mapa), lines 170-172:
\* return OrdenarJSON(mapa).
CallMapa ==
  /\ pc = "idle"
  /\ \E mapa \in MapaInputs : Enter(mapa)
  /\ fns' = <<"OrdenarMapaComoDocumentoMetadata">>
  /\ metadata' = NoMetadata
  /\ prev' = NoResult

\* OrdenarDocumentoMetadata(metadata), lines 79-105: the map of the fields
\* that are not empty, then return OrdenarJSON(datos).
CallDocumento ==
  /\ pc = "idle"
  /\ \E d \in Documents :
       /\ metadata' = d
       /\ Enter(Input(TMap, <<>>, DocumentoADatos(d)))
  /\ fns' = <<"OrdenarDocumentoMetadata">>
  /\ prev' = NoResult

\* The caller invokes the same function a second time on the same input.
CallAgain ==
  /\ pc = "done"
  /\ prev = NoResult
  /\ Enter(input)
  /\ fns' = Append(fns, fns[1])
  /\ prev' = ret
  /\ UNCHANGED metadata

\* The caller passes the map it gave to OrdenarJSON to
\* OrdenarMapaComoDocumentoMetadata, or the other way round.
CallOther ==
  /\ pc = "done"
  /\ prev = NoResult
  /\ input.typ = TMap
  /\ fns[1] \in {"OrdenarJSON", "OrdenarMapaComoDocumentoMetadata"}
  /\ Enter(input)
  /\ fns' = Append(fns, IF fns[1] = "OrdenarJSON"
                        THEN "OrdenarMapaComoDocumentoMetadata"
                        ELSE "OrdenarJSON")
  /\ prev' = ret
  /\ UNCHANGED metadata

\* The caller passes the text OrdenarJSON returned to OrdenarJSON.
CallOnResultado ==
  /\ pc = "done"
  /\ prev = NoResult
  /\ fns = <<"OrdenarJSON">>
  /\ ret.err = ErrNil
  /\ Enter(Input(TString, ret.text, NilMap))
  /\ fns' = Append(fns, "OrdenarJSON(resultado)")
  /\ prev' = ret
  /\ UNCHANGED metadata

\* The range passing over the keys whose value is nil or the empty string.
RangeSkippingEmpty ==
  /\ pc = "range"
  /\ \E s \in Orderings({k \in DOMAIN datos : datos[k] \notin {GoNil, GoString(<<>>)}}) :
       claves' = s
  /\ ran' = ran \cup {"range"}
  /\ pc' = "sort"
  /\ UNCHANGED <<ordenCampoMap, input, datos, i, buf, ret, prev, fns, metadata, peer>>

\* The range over a decoding into an ordered map: for a text input the keys
\* are visited in increasing order, for a map input in any order.
RangeOverOrderedMap ==
  /\ pc = "range"
  /\ IF input.typ = TString
     THEN claves' = SortedStrings(DOMAIN datos)
     ELSE \E s \in RangeOrders(datos) : claves' = s
  /\ ran' = ran \cup {"range"}
  /\ pc' = "sort"
  /\ UNCHANGED <<ordenCampoMap, input, datos, i, buf, ret, prev, fns, metadata, peer>>

\* The range preceded by a rejection of a mapping without keys.
RangeRejectingEmpty ==
  /\ pc = "range"
  /\ ran' = ran \cup {"range"}
  /\ IF DOMAIN datos = {}
     THEN Fail("errorString", <<"JSON vacío">>) /\ UNCHANGED claves
     ELSE /\ \E s \in RangeOrders(datos) : claves' = s
          /\ pc' = "sort"
          /\ UNCHANGED ret
  /\ UNCHANGED <<ordenCampoMap, input, datos, i, buf, prev, fns, metadata, peer>>

\* Lines 126-130: the keys of datos, in the order the range visits them.
Range ==
  /\ pc = "range"
  /\ \E s \in RangeOrders(datos) : claves' = s
  /\ ran' = ran \cup {"range"}
  /\ pc' = "sort"
  /\ UNCHANGED <<ordenCampoMap, input, datos, i, buf, ret, prev, fns, metadata, peer>>

\* The sort with a cache: the rank of every key it has met is stored in
\* ordenCampoMap.
SortCachingRanks ==
  /\ pc = "sort"
  /\ \E q \in SortSlice(claves) : claves' = q
  /\ ordenCampoMap' =
       [k \in DOMAIN ordenCampoMap \cup {claves[j] : j \in 1..Len(claves)} |->
          obtenerOrdenCampo(k)]
  /\ buf' = <<"{">>
  /\ i' = 1
  /\ ran' = ran \cup {"sort"}
  /\ pc' = "encode"
  /\ UNCHANGED <<input, datos, ret, prev, fns, metadata, peer>>

\* Lines 132-139: sort.Slice, then the opening brace.
Sort ==
  /\ pc = "sort"
  /\ \E q \in SortSlice(claves) : claves' = q
  /\ buf' = <<"{">>
  /\ i' = 1
  /\ ran' = ran \cup {"sort"}
  /\ pc' = "encode"
  /\ UNCHANGED <<ordenCampoMap, input, datos, ret, prev, fns, metadata, peer>>

\* The pair followed by a comma instead of preceded by one.
EncodePairThenComma(k, clave, valorJSON) ==
  MarshalString(clave) \o <<":">> \o valorJSON \o <<",">>

\* One pair as the loop body writes it to buf (lines 141-156).
EncodePair(k, clave, valorJSON) ==
  (IF k > 1 THEN <<",">> ELSE <<>>) \o MarshalString(clave) \o <<":">> \o valorJSON

\* The loop with an encoder that follows a value containing itself without
\* end: the iteration at such a value never completes.
EncodeFollowingCycles ==
  /\ pc = "encode"
  /\ IF i <= Len(claves) /\ MapIndex(datos, claves[i]).type = "cycle"
     THEN UNCHANGED <<pc, ret, buf, i, ran>>
     ELSE /\ ran' = ran \cup {"encode"}
          /\ IF i <= Len(claves)
             THEN LET valor == Marshal(MapIndex(datos, claves[i])) IN
                  IF valor.err # ErrNil
                  THEN /\ Fail(valor.err, <<>>)
                       /\ UNCHANGED <<buf, i>>
                  ELSE /\ buf' = buf \o EncodePair(i, claves[i], valor.text)
                       /\ i' = i + 1
                       /\ UNCHANGED <<pc, ret>>
             ELSE /\ buf' = Append(buf, "}")
                  /\ pc' = "indent"
                  /\ UNCHANGED <<i, ret>>
  /\ UNCHANGED <<ordenCampoMap, input, datos, claves, prev, fns, metadata, peer>>

\* The loop taking each entry out of the map once it is written:
\* delete(datos, clave) at the end of the body.
EncodeConsumingMap ==
  /\ pc = "encode"
  /\ ran' = ran \cup {"encode"}
  /\ IF i <= Len(claves)
     THEN LET valor == Marshal(MapIndex(datos, claves[i])) IN
          IF valor.err # ErrNil
          THEN /\ Fail(valor.err, <<>>)
               /\ UNCHANGED <<buf, i, datos>>
          ELSE /\ buf' = buf \o EncodePair(i, claves[i], valor.text)
               /\ i' = i + 1
               /\ datos' = [k \in DOMAIN datos \ {claves[i]} |-> datos[k]]
               /\ UNCHANGED <<pc, ret>>
     ELSE /\ buf' = Append(buf, "}")
          /\ pc' = "indent"
          /\ UNCHANGED <<i, ret, datos>>
  /\ UNCHANGED <<ordenCampoMap, input, claves, prev, fns, metadata, peer>>

\* Lines 140-158: one iteration of the loop, or its end and the closing
\* brace.  An encoding error returns at once.
Encode ==
  /\ pc = "encode"
  /\ ran' = ran \cup {"encode"}
  /\ IF i <= Len(claves)
     THEN LET valor == Marshal(MapIndex(datos, claves[i])) IN
          IF valor.err # ErrNil
          THEN /\ Fail(valor.err, <<>>)
               /\ UNCHANGED <<buf, i>>
          ELSE /\ buf' = buf \o EncodePair(i, claves[i], valor.text)
               /\ i' = i + 1
               /\ UNCHANGED <<pc, ret>>
     ELSE /\ buf' = Append(buf, "}")
          /\ pc' = "indent"
          /\ UNCHANGED <<i, ret>>
  /\ UNCHANGED <<ordenCampoMap, input, datos, claves, prev, fns, metadata, peer>>

\* Lines 160-165: json.Indent and the return of its text.
Format ==
  /\ pc = "indent"
  /\ ran' = ran \cup {"indent"}
  /\ LET r == Indent(buf) IN
     IF r.err # ErrNil
     THEN Fail(r.err, <<>>)
     ELSE ret' = Result(r.text, ErrNil, <<>>) /\ pc' = "done"
  /\ UNCHANGED <<ordenCampoMap, input, datos, claves, i, buf, prev, fns, metadata, peer>>

\* The caller drops the result; the invocation's locals are gone.
Return ==
  /\ pc = "done"
  /\ pc' = "idle"
  /\ input' = NoInput
  /\ datos' = NilMap
  /\ claves' = <<>>
  /\ i' = 0
  /\ buf' = <<>>
  /\ ret' = NoResult
  /\ ran' = {}
  /\ prev' = NoResult
  /\ fns' = <<>>
  /\ metadata' = NoMetadata
  /\ UNCHANGED <<ordenCampoMap, peer>>

(***************************************************************************)
(* Two goroutines.  The variables pc ... metadata are the locals of the    *)
(* goroutine that is running, peer holds the locals of the other one; the  *)
(* scheduler may switch between them before any step.  ordenCampoMap is    *)
(* the one package variable both read.                                     *)
(***************************************************************************)
Locals ==
  [pc |-> pc, input |-> input, datos |-> datos, claves |-> claves, i |-> i,
   buf |-> buf, ret |-> ret, ran |-> ran, prev |-> prev, fns |-> fns,
   metadata |-> metadata]

\* The other goroutine goes on with buf a package variable: it finds in buf
\* what this goroutine has written.
ResumeSharedBuf(l) ==
  /\ pc' = l.pc
  /\ input' = l.input
  /\ datos' = l.datos
  /\ claves' = l.claves
  /\ i' = l.i
  /\ buf' = buf
  /\ ret' = l.ret
  /\ ran' = l.ran
  /\ prev' = l.prev
  /\ fns' = l.fns
  /\ metadata' = l.metadata

\* The other goroutine goes on with its own locals: datos, claves, buf and
\* the loop variable are declared inside OrdenarJSON.
Resume(l) ==
  /\ pc' = l.pc
  /\ input' = l.input
  /\ datos' = l.datos
  /\ claves' = l.claves
  /\ i' = l.i
  /\ buf' = l.buf
  /\ ret' = l.ret
  /\ ran' = l.ran
  /\ prev' = l.prev
  /\ fns' = l.fns
  /\ metadata' = l.metadata

Switch ==
  /\ peer' = Locals
  /\ Resume(peer)
  /\ UNCHANGED ordenCampoMap

\* The inputs of the concurrent calls: maps with table keys and keys outside
\* the table, a value that cannot be encoded, texts, an unsupported type.
GoInputs ==
  { Input(TMap, <<>>, MapOf({1, 2, 3}, 0)),
    Input(TMap, <<>>, MapOf({2, 4}, 0)),
    Input(TMap, <<>>, MapOf({1, 3}, 6)),
    Input(TString, WriteTree(ObjectTree(<<2, 3, 1>>, 0)), NilMap),
    Input(TString, <<"null">>, NilMap),
    Input(TString, <<"{", "}", "{", "}">>, NilMap),
    Input("int", <<>>, NilMap) }
GoDocuments == {DocumentOf({13, 1}, 1), DocumentOf({17, 3, 1}, 2)}

\* go OrdenarJSON(in)
GoOrdenarJSON ==
  /\ pc = "idle"
  /\ \E in \in GoInputs : Enter(in)
  /\ fns' = <<"OrdenarJSON">>
  /\ metadata' = NoMetadata
  /\ prev' = NoResult

\* go OrdenarDocumentoMetadata(d)
GoOrdenarDocumentoMetadata ==
  /\ pc = "idle"
  /\ \E d \in GoDocuments :
       /\ metadata' = d
       /\ Enter(Input(TMap, <<>>, DocumentoADatos(d)))
  /\ fns' = <<"OrdenarDocumentoMetadata">>
  /\ prev' = NoResult

NextGo ==
  \/ GoOrdenarJSON \/ GoOrdenarDocumentoMetadata \/ Switch
  \/ Range \/ Sort \/ Encode \/ Format \/ Return

SpecGo == Init /\ [][NextGo]_vars

Next ==
  \/ Call \/ CallMapa \/ CallDocumento \/ CallAgain \/ CallOther
  \/ Range \/ Sort \/ Encode \/ Format \/ Return

Spec == Init /\ [][Next]_vars

\* A call that has started runs on: OrdenarJSON is straight-line code with
\* two loops over claves, it takes no lock and waits for nothing, so each of
\* its steps is taken when it is enabled.  Whether a caller calls at all,
\* calls again or drops the result is left open.
LiveInputs ==
  GoInputs \cup SpecialInputs
    \cup {Input(TMap, <<>>, MapOf(S, r)) :
             S \in {{1, 2, 3}, {2, 4}, {1, 5}, {3}}, r \in {0, 6, 7, 8}}
    \cup {NilMapInput, Input(TString, <<"123">>, NilMap)}
CallLive ==
  /\ pc = "idle"
  /\ \E in \in LiveInputs : Enter(in)
  /\ fns' = <<"OrdenarJSON">>
  /\ metadata' = NoMetadata
  /\ prev' = NoResult
NextLive == CallLive \/ Range \/ Sort \/ Encode \/ Format \/ Return
\* The last conjunct is WF_vars(Format) with ENABLED <<Format>>_vars written
\* as pc = "indent": Format is enabled exactly there, and it changes pc.
SpecLive ==
  /\ Init /\ [][NextLive]_vars
  /\ WF_vars(Range) /\ WF_vars(Sort) /\ WF_vars(Encode)
  /\ ([]<>(pc # "indent") \/ []<><<Format>>_vars)

\* A caller passes an input to OrdenarJSON and then the returned text.
NextResultado ==
  Call \/ CallOnResultado \/ Range \/ Sort \/ Encode \/ Format \/ Return
SpecResultado == Init /\ [][NextResultado]_vars

\* The two paths on one content: a caller passes an object text to
\* OrdenarJSON, then decodes the same text with json.Unmarshal and passes
\* the mapping.
PathTexts ==
  {WriteTree(ObjectTree(ks, 5)) : ks \in KeySeqs} \cup EmptyValueTexts \cup SpecialTexts
CallText ==
  /\ pc = "idle"
  /\ \E t \in PathTexts : Enter(Input(TString, t, NilMap))
  /\ fns' = <<"OrdenarJSON">>
  /\ metadata' = NoMetadata
  /\ prev' = NoResult
CallDecoded ==
  /\ pc = "done"
  /\ prev = NoResult
  /\ input.typ = TString
  /\ Unmarshal(input.text).err = ErrNil
  /\ Enter(Input(TMap, <<>>, Unmarshal(input.text).datos))
  /\ fns' = Append(fns, "OrdenarJSON(datos)")
  /\ prev' = ret
  /\ UNCHANGED metadata
NextPaths == CallText \/ CallDecoded \/ Range \/ Sort \/ Encode \/ Format \/ Return
SpecPaths == Init /\ [][NextPaths]_vars

(***************************************************************************)
(* Observations of one finished invocation.                                *)
(***************************************************************************)
Done == pc = "done"
Success == Done /\ ret.err = ErrNil
IsText == input.typ = TString
IsMap == input.typ = TMap

\* The table, read directly.
InTable(k) == \E j \in 1..Len(OrdenCampos) : OrdenCampos[j] = k
TableRank(k) == (CHOOSE j \in 1..Len(OrdenCampos) : OrdenCampos[j] = k) - 1

\* The returned text and the input text as a reader sees them: syntax trees
\* with the members in text order.
OutTree == Parse(ret.text).v
OutKeys == TreeKeys(OutTree)
InTree == Parse(input.text).v
IsObjectText(txt) == Parse(txt).ok /\ Parse(txt).v.type = "object"
InKeys == IF IsObjectText(input.text) THEN TreeKeys(InTree) ELSE <<>>

\* The key set of the input mapping.
InputKeySet == IF IsMap THEN DOMAIN input.m ELSE {InKeys[j] : j \in 1..Len(InKeys)}

Range2(s) == {s[j] : j \in 1..Len(s)}
NoRepeatedKey(s) == \A a, b \in 1..Len(s) : a # b => s[a] # s[b]
Unranked(s) == SelectSeq(s, LAMBDA k : ~InTable(k))

\* The value a tree denotes: a number by its exact decimal value, an object
\* as the mapping of its keys (the last member of a name counts).
RECURSIVE JSONValue(_)
JSONValue(tree) ==
  CASE tree.type = "object" ->
         GoMap([k \in Range2(TreeKeys(tree)) |-> JSONValue(LastMember(tree, k))])
    [] tree.type = "array" ->
         GoSlice([j \in 1..Len(tree.elems) |-> JSONValue(tree.elems[j])])
    [] tree.type = "number" -> TNum(DecimalValue(tree.str[1]))
    [] OTHER -> tree

\* The keys of the objects nested in a tree, in text order.
RECURSIVE KeyOrder(_)
KeyOrder(tree) ==
  CASE tree.type = "object" ->
         [keys |-> TreeKeys(tree),
          kids |-> [j \in 1..Len(tree.members) |-> KeyOrder(tree.members[j][2])]]
    [] tree.type = "array" ->
         [keys |-> <<>>,
          kids |-> [j \in 1..Len(tree.elems) |-> KeyOrder(tree.elems[j])]]
    [] OTHER -> [keys |-> <<>>, kids |-> <<>>]

\* A Go value json.Marshal can write.
RECURSIVE Encodable(_)
Encodable(v) ==
  /\ v.type \notin {"func", "chan", "cycle"}
  /\ v.num # NaN
  /\ \A j \in 1..Len(v.elems) : Encodable(v.elems[j])
  /\ \A k \in DOMAIN v.m : Encodable(v.m[k])

\* strings.TrimSpace, as the tests apply it to the returned text.
RECURSIVE TrimLeft(_)
TrimLeft(txt) ==
  IF txt # <<>> /\ Head(txt) \in WhiteSpace THEN TrimLeft(Tail(txt)) ELSE txt
RECURSIVE TrimRight(_)
TrimRight(txt) ==
  IF txt # <<>> /\ txt[Len(txt)] \in WhiteSpace
  THEN TrimRight(SubSeq(txt, 1, Len(txt) - 1))
  ELSE txt
TrimSpace(txt) == TrimRight(TrimLeft(txt))

\* getOrder of the tests: the index of the first entry of OrdenCampos equal
\* to campo, found by a linear search, or len(OrdenCampos).
RECURSIVE getOrderFrom(_, _)
getOrderFrom(campo, j) ==
  IF j > Len(OrdenCampos) THEN Len(OrdenCampos)
  ELSE IF OrdenCampos[j] = campo THEN j - 1
  ELSE getOrderFrom(campo, j + 1)
getOrder(campo) == getOrderFrom(campo, 1)

\* The results of one call of OrdenarJSON that runs alone, from its first
\* statement to its return: the loop of lines 140-158 over a sorted key
\* sequence q, for every order the range and the sort may produce.
RECURSIVE EncodeAll(_, _, _, _)
EncodeAll(m, q, k, acc) ==
  IF k > Len(q) THEN MarshalOk(Append(acc, "}"))
  ELSE LET valor == Marshal(MapIndex(m, q[k])) IN
       IF valor.err # ErrNil THEN valor
       ELSE EncodeAll(m, q, k + 1, acc \o EncodePair(k, q[k], valor.text))
ResultFor(m, q) ==
  LET e == EncodeAll(m, q, 1, <<"{">>) IN
  IF e.err # ErrNil THEN Result(<<>>, e.err, <<>>)
  ELSE LET r == Indent(e.text) IN
       IF r.err # ErrNil THEN Result(<<>>, r.err, <<>>)
       ELSE Result(r.text, ErrNil, <<>>)
MapResults(m) ==
  {ResultFor(m, q) : q \in UNION {SortSlice(s) : s \in RangeOrders(m)}}
AloneResults(in) ==
  IF in.typ = TString
  THEN LET u == Unmarshal(in.text) IN
       IF u.err # ErrNil THEN {Result(<<>>, u.err, <<>>)} ELSE MapResults(u.datos)
  ELSE IF in.typ = TMap THEN MapResults(in.m)
  ELSE {Result(<<>>, "errorString",
               <<"tipo de entrada no soportado: ", FormatT(in.typ)>>)}

(***************************************************************************)
(* The claims.                                                             *)
(***************************************************************************)
\* C1: in every output, a key of OrdenCampos with a lower rank stands before
\* every key of OrdenCampos with a higher rank, whatever the input order.
C1_PriorityOrder ==
  Success =>
    LET keys == OutKeys IN
    \A a, b \in 1..Len(keys) :
      (InTable(keys[a]) /\ InTable(keys[b])
         /\ TableRank(keys[a]) < TableRank(keys[b])) => a < b

\* C1 witness: a text that lists two table keys against their priority has
\* been ordered.
C1_Witness ==
  /\ Success /\ IsText
  /\ \E a, b \in 1..Len(InKeys) :
       /\ a < b
       /\ InTable(InKeys[a]) /\ InTable(InKeys[b])
       /\ TableRank(InKeys[a]) > TableRank(InKeys[b])

\* C2: the keys of a successful output are the keys of the input mapping,
\* each exactly once.
C2_KeyPermutation ==
  Success =>
    LET keys == OutKeys
        inputKeys == InputKeySet
    IN  /\ IsObjectText(ret.text)
        /\ Range2(keys) = inputKeys
        /\ Len(keys) = Cardinality(inputKeys)
        /\ NoRepeatedKey(keys)

\* C2 witness: a text of three members that names one key twice has been
\* ordered.
C2_Witness ==
  /\ Success /\ IsText
  /\ Len(InKeys) = 3 /\ Cardinality(InputKeySet) = 2
  /\ Len(OutKeys) = 2

\* C3: with k table keys in the input, the first k keys of the output are
\* the table keys and the keys from position k + 1 on are the others.
C3_UnrankedTail ==
  Success =>
    LET k == Cardinality({x \in InputKeySet : InTable(x)})
        keys == OutKeys
    IN  \A j \in 1..Len(keys) : InTable(keys[j]) <=> j <= k

\* C3 witness: an input that names a key outside the table before a table
\* key has been ordered.
C3_Witness ==
  /\ Success /\ IsText
  /\ Len(InKeys) >= 2 /\ ~InTable(InKeys[1]) /\ InTable(InKeys[Len(InKeys)])

\* C4: for a text input, the keys outside the table keep in the output the
\* relative order they have in the text.
C4_UnrankedKeepTextOrder ==
  (Success /\ IsText /\ NoRepeatedKey(InKeys)) => Unranked(OutKeys) = Unranked(InKeys)

\* C5: two executions of OrdenarJSON on the same input return the same
\* text, and both succeed or both fail.
C5_Determinism ==
  (Done /\ prev # NoResult) =>
    ret.text = prev.text /\ (ret.err = ErrNil <=> prev.err = ErrNil)

\* C6: each key's value in the output denotes the value the key has in the
\* input, with the same JSON type.
C6_ValueFidelity ==
  Success =>
    \A j \in 1..Len(OutKeys) :
      IF IsMap
      THEN Decode(OutTree.members[j][2]) = MapIndex(input.m, OutKeys[j])
      ELSE JSONValue(OutTree.members[j][2]) = JSONValue(LastMember(InTree, OutKeys[j]))

\* C7: below the top level nothing is reordered: the keys of every nested
\* object and the elements of every array stand in the output as in the text.
C7_NestedOrderKept ==
  (Success /\ IsText) =>
    \A j \in 1..Len(OutKeys) :
      KeyOrder(OutTree.members[j][2]) = KeyOrder(LastMember(InTree, OutKeys[j]))

\* C8: a text that is not one JSON object is answered by an error and the
\* empty text.
C8_NonObjectTextRejected ==
  (Done /\ IsText /\ ~IsObjectText(input.text)) =>
    ret.err # ErrNil /\ ret.text = <<>>

\* C9: an input that is neither a string nor a map[string]interface{} is
\* answered by the empty text and an error naming its type, and no step of
\* the ordering (range, sort, encoding, indentation) has run.
TypeNames ==
  [t \in OtherTypes |-> IF t = "nil" THEN "<nil>" ELSE t]
C9_UnsupportedTypeRejected ==
  (Done /\ ~IsText /\ ~IsMap) =>
    /\ ret.text = <<>>
    /\ ret.err = "errorString"
    /\ ret.msg = <<"tipo de entrada no soportado: ", TypeNames[input.typ]>>
    /\ ran = {} /\ claves = <<>> /\ buf = <<>>

\* C9 witness: a DocumentMetadata value has been rejected.
C9_Witness ==
  Done /\ input.typ = "ordenJson.DocumentMetadata" /\ ret.err # ErrNil

\* C10: when a value of the input map cannot be encoded, the call returns an
\* error and the empty text, wherever the key stands in the sorted order.
C10_EncodingFailureIsTotal ==
  (Done /\ IsMap /\ \E k \in DOMAIN input.m : ~Encodable(input.m[k])) =>
    ret.err # ErrNil /\ ret.text = <<>>

\* C10 witness: the call has failed at its third pair, after two pairs were
\* written to buf.
C10_Witness ==
  /\ Done /\ IsMap /\ ret.err # ErrNil
  /\ i = 3 /\ Len(buf) > 1
  /\ Encodable(input.m[claves[1]]) /\ Encodable(input.m[claves[2]])
  /\ ~Encodable(input.m[claves[3]])

\* C11: every call ends either with a non-empty text that is one JSON object
\* and a nil error, or with the empty text and an error of the parse, the
\* unsupported-input or the encoding kind; never a text together with an
\* error, never an empty or malformed text with a nil error.
ParseErrors == {"SyntaxError", "UnmarshalTypeError"}
InputErrors == {"errorString"}
EncodingErrors == {"UnsupportedTypeError", "UnsupportedValueError"}
C11_TerminalOutcomes ==
  Done =>
    \/ ret.err = ErrNil /\ ret.text # <<>> /\ IsObjectText(ret.text)
    \/ /\ ret.text = <<>>
       /\ \/ ret.err \in ParseErrors /\ IsText /\ ran = {}
          \/ ret.err \in InputErrors /\ ~IsText /\ ~IsMap
          \/ ret.err \in EncodingErrors /\ "encode" \in ran

\* C11 witness: a call has failed at the value of its second pair, after
\* the first pair was written to buf.
C11_Witness ==
  /\ Done /\ ret.err \in EncodingErrors
  /\ i = 2 /\ Len(buf) > 1

\* C12: OrdenarJSON applied to the text {}, to an empty map or to a nil
\* map[string]interface{} returns a nil error and a text that, trimmed of
\* white space, is {}.
EmptyObjectText == <<"{", "}">>
C12_EmptyObject ==
  (Done /\ \/ IsText /\ input.text = EmptyObjectText
           \/ IsMap /\ DOMAIN input.m = {}) =>
    ret.err = ErrNil /\ TrimSpace(ret.text) = EmptyObjectText

\* C12 witness: OrdenarJSON has answered a nil map.
C12_Witness ==
  Done /\ IsMap /\ input.isNil /\ fns = <<"OrdenarJSON">> /\ ret.text # <<>>

\* C13: keys and string values are written as JSON string literals that
\* decode back to the original string; a backslash is written as two
\* backslashes, a double quote as backslash and quote, a newline as
\* backslash and n, the letter ñ as itself, in keys as in values.
ClaimedEscape(c) ==
  CASE c = Backslash -> <<Backslash, Backslash>>
    [] c = Quote -> <<Backslash, Quote>>
    [] c = Newline -> <<Backslash, "n">>
    [] OTHER -> <<c>>
RECURSIVE ClaimedChars(_)
ClaimedChars(str) ==
  IF str = <<>> THEN <<>> ELSE ClaimedEscape(Head(str)) \o ClaimedChars(Tail(str))
ClaimedLiteral(str) == <<Quote>> \o ClaimedChars(str) \o <<Quote>>
\* The characters whose written form the claim states.
Stated(str) == \A j \in 1..Len(str) : str[j] # "<"
Contains(txt, pat) ==
  \E p \in 1..(Len(txt) - Len(pat) + 1) : SubSeq(txt, p, p + Len(pat) - 1) = pat
\* The Go value a key of the input holds.
InputValue(k) == IF IsMap THEN input.m[k] ELSE Decode(LastMember(InTree, k))
C13_StringsEscaped ==
  (Done /\ (IsMap \/ (IsText /\ IsObjectText(input.text)))) =>
    LET inputKeys == InputKeySet
        value == [k \in inputKeys |-> InputValue(k)]
        out == OutTree
        keys == TreeKeys(out)
    IN  (\A k \in inputKeys : Encodable(value[k])) =>
          /\ ret.err = ErrNil
          /\ \A k \in inputKeys :
               /\ \E j \in 1..Len(keys) :
                    /\ keys[j] = k
                    /\ value[k].type = "string" =>
                         out.members[j][2] = TStr(value[k].str)
               /\ Stated(k) => Contains(ret.text, ClaimedLiteral(k) \o <<":", Space>>)
               /\ (Stated(k) /\ value[k].type = "string" /\ Stated(value[k].str)) =>
                    Contains(ret.text, ClaimedLiteral(k) \o <<":", Space>>
                                         \o ClaimedLiteral(value[k].str))

\* C13 witness: a map whose key and value both hold a backslash, a quote,
\* ñ and a newline has been written.
C13_Witness ==
  /\ Success /\ IsMap
  /\ SpecialKey \in DOMAIN input.m
  /\ input.m[SpecialKey] = GoString(SpecialValue)

\* C14: for every name, obtenerOrdenCampo returns the zero-based index of
\* the name in OrdenCampos, or 17 when the name is not in it; it agrees with
\* the linear search getOrder, lies in 0..17, and is 17 exactly for the
\* names outside the table.
FieldNames ==
  Range2(OrdenCampos) \cup Range2(TopKeys) \cup Range2(claves) \cup DOMAIN datos
    \cup { <<>>, SpecialKey, Str("TANNER:TIPO-DOCUMENTO"), Str("tipo-documento"),
           <<"tanner:tipo-documento", Space>>, Str("cm:Title"), Str("_cm:title") }
C14_RankOfName ==
  \A name \in FieldNames :
    LET rank == obtenerOrdenCampo(name) IN
    /\ rank = getOrder(name)
    /\ rank \in 0..17
    /\ rank = 17 <=> ~InTable(name)
    /\ InTable(name) => OrdenCampos[rank + 1] = name

\* C14 witness: the sort has compared the first name of the table with a
\* name outside it.
C14_Witness ==
  /\ "sort" \in ran
  /\ \E a, b \in Range2(claves) :
       obtenerOrdenCampo(a) = 0 /\ obtenerOrdenCampo(b) = Len(OrdenCampos)

\* C15: OrdenCampos holds exactly seventeen pairwise distinct names, in the
\* order tipo-documento, razon-social-cliente, rut-cliente, estado-visado,
\* estado-vigencia, fecha-carga, nombre-doc, categorias, sub-categorias,
\* origen, relacion, fecha-termino-vigencia, cm:title, cm:versionType,
\* cm:versionLabel, cm:description, observaciones; the rank is a one-to-one
\* map from the names of the table onto 0..16.
ClaimedOrder ==
  << "tanner:tipo-documento", "tanner:razon-social-cliente", "tanner:rut-cliente",
     "tanner:estado-visado", "tanner:estado-vigencia", "tanner:fecha-carga",
     "tanner:nombre-doc", "tanner:categorias", "tanner:sub-categorias",
     "tanner:origen", "tanner:relacion", "tanner:fecha-termino-vigencia",
     "cm:title", "cm:versionType", "cm:versionLabel", "cm:description",
     "tanner:observaciones" >>
C15_TableContents ==
  /\ Len(OrdenCampos) = 17
  /\ \A j \in 1..17 : OrdenCampos[j] = <<ClaimedOrder[j]>>
  /\ \A a, b \in 1..Len(OrdenCampos) : a # b => OrdenCampos[a] # OrdenCampos[b]
  /\ DOMAIN ordenCampoMap = Range2(OrdenCampos)
  /\ \A a, b \in DOMAIN ordenCampoMap : a # b => ordenCampoMap[a] # ordenCampoMap[b]
  /\ {obtenerOrdenCampo(name) : name \in Range2(OrdenCampos)} = 0..16
  /\ \A j \in 1..Len(OrdenCampos) : obtenerOrdenCampo(OrdenCampos[j]) = j - 1

\* C15 witness: a record with TipoDocumento, CmTitle and Observaciones set
\* has been written with cm:title before tanner:observaciones.
C15_Witness ==
  /\ Success /\ fns[1] = "OrdenarDocumentoMetadata"
  /\ OutKeys = << Str("tanner:tipo-documento"), Str("cm:title"), Str("tanner:observaciones") >>

\* C16: OrdenarDocumentoMetadata writes exactly the json tags of the fields
\* whose value is not the empty string (a field of white space only is not
\* empty), each with the field's value as a string, in the order of the
\* priority table; a field that is "" is not written.
IsDocumento == fns # <<>> /\ fns[1] = "OrdenarDocumentoMetadata"
FilledFields == {f \in 1..Len(metadata) : metadata[f] # <<>>}
C16_DocumentoFields ==
  (Done /\ IsDocumento) =>
    /\ ret.err = ErrNil
    /\ Len(OutKeys) = Cardinality(FilledFields)
    /\ \A f \in FilledFields :
         LET tag == DocumentMetadataTags[f]
             place == Cardinality({g \in FilledFields :
                                     TableRank(DocumentMetadataTags[g]) <= TableRank(tag)})
         IN  /\ OutKeys[place] = tag
             /\ OutTree.members[place][2] = TStr(metadata[f])
    /\ \A f \in 1..Len(metadata) :
         metadata[f] = <<>> => DocumentMetadataTags[f] \notin Range2(OutKeys)

\* C16 witness: a record with a field of one blank, another field set and
\* the remaining fields empty has been written.
C16_Witness ==
  /\ Success /\ IsDocumento
  /\ Cardinality(FilledFields) = 2
  /\ \E f \in FilledFields :
       metadata[f] = <<Space>> /\ DocumentMetadataTags[f] \in Range2(OutKeys)

\* C17: with two goroutines calling OrdenarJSON and OrdenarDocumentoMetadata
\* at the same time without a lock, under every interleaving of their steps
\* each call returns a result the same call returns when it runs alone, and
\* the table every step reads is the complete table init has built.
C17_ConcurrentCalls ==
  /\ ordenCampoMap = BuildOrdenCampoMap
  /\ DOMAIN ordenCampoMap = Range2(OrdenCampos)
  /\ Done => ret \in AloneResults(input)
  /\ peer.pc = "done" => peer.ret \in AloneResults(peer.input)

\* C17 witness: a goroutine has returned the text of three pairs while the
\* other goroutine is inside its loop, one pair written.
C17_Witness ==
  /\ Success /\ Len(OutKeys) = 3
  /\ peer.pc = "encode" /\ peer.i = 2 /\ Len(peer.claves) >= 2

\* C18: no step of a call to OrdenarJSON, OrdenarDocumentoMetadata or
\* OrdenarMapaComoDocumentoMetadata, successful or failed, changes
\* ordenCampoMap, so obtenerOrdenCampo gives a name the same rank after the
\* step as before it; and a call that has returned leaves nothing but the
\* table to the next call.
RankedNames ==
  Range2(OrdenCampos) \cup Range2(TopKeys) \cup {<<>>, SpecialKey, Str("cm:Title")}
C18_TableImmutable ==
  [][/\ ordenCampoMap' = ordenCampoMap
     /\ \A name \in RankedNames : obtenerOrdenCampo(name)' = obtenerOrdenCampo(name)
     /\ pc' = "idle" => Locals' = IdleLocals]_vars

\* C18 witness: a map with a value that cannot be encoded has been given to
\* OrdenarJSON and then to OrdenarMapaComoDocumentoMetadata, and both calls
\* have failed after the sort.
C18_Witness ==
  /\ Done /\ fns = <<"OrdenarJSON", "OrdenarMapaComoDocumentoMetadata">>
  /\ prev.err # ErrNil /\ ret.err # ErrNil /\ "sort" \in ran
  /\ ordenCampoMap = BuildOrdenCampoMap

\* C19: for every map, OrdenarMapaComoDocumentoMetadata and OrdenarJSON
\* return the same text and the same error outcome.
C19_MapaEquivalent ==
  (Done /\ Len(fns) = 2 /\ fns[1] # fns[2]) =>
    ret.text = prev.text /\ (ret.err = ErrNil <=> prev.err = ErrNil)

\* C20: the sort step is stable for the keys outside the table: it leaves
\* any two of them in the relative order they have in claves, the sequence
\* built by the range over the mapping.
C20_SortStable ==
  [][(pc = "sort" /\ pc' = "encode") => Unranked(claves') = Unranked(claves)]_vars

\* C21: the compact text in buf for a mapping of n keys is "{", the n pairs
\* key:value in sorted order and "}", with a comma before every pair but the
\* first: max(n - 1, 0) commas at the top level, none leading, none
\* trailing, and one colon between each key and its value.
RECURSIVE TopLevelCount(_, _, _, _, _)
TopLevelCount(txt, c, p, depth, inString) ==
  IF p > Len(txt) THEN 0
  ELSE IF inString
  THEN IF txt[p] = Backslash
       THEN TopLevelCount(txt, c, p + 2, depth, TRUE)
       ELSE TopLevelCount(txt, c, p + 1, depth, txt[p] # Quote)
  ELSE IF txt[p] = Quote THEN TopLevelCount(txt, c, p + 1, depth, TRUE)
  ELSE IF txt[p] \in {"{", "["} THEN TopLevelCount(txt, c, p + 1, depth + 1, FALSE)
  ELSE IF txt[p] \in {"}", "]"} THEN TopLevelCount(txt, c, p + 1, depth - 1, FALSE)
  ELSE (IF txt[p] = c /\ depth = 1 THEN 1 ELSE 0)
         + TopLevelCount(txt, c, p + 1, depth, FALSE)
RECURSIVE JoinedPairs(_)
JoinedPairs(k) ==
  IF k = 0 THEN <<>>
  ELSE JoinedPairs(k - 1) \o (IF k > 1 THEN <<",">> ELSE <<>>)
         \o ClaimedLiteral(claves[k]) \o <<":">> \o Marshal(datos[claves[k]]).text
C21_CompactAssembly ==
  pc = "indent" =>
    LET n == Cardinality(DOMAIN datos) IN
    /\ Len(claves) = n
    /\ buf[1] = "{" /\ buf[Len(buf)] = "}"
    /\ TopLevelCount(buf, ",", 1, 0, FALSE) = (IF n = 0 THEN 0 ELSE n - 1)
    /\ TopLevelCount(buf, ":", 1, 0, FALSE) = n
    /\ buf[2] # "," /\ buf[Len(buf) - 1] # ","
    /\ (\A k \in DOMAIN datos : Stated(k)) => buf = <<"{">> \o JoinedPairs(n) \o <<"}">>

\* C21 witness: the text of three pairs, one of them an array with a comma
\* of its own, is complete in buf.
C21_Witness ==
  /\ pc = "indent" /\ Len(claves) = 3
  /\ \E k \in DOMAIN datos : datos[k].type = "slice" /\ Len(datos[k].elems) = 2

\* C22: the returned text differs from the compact text in buf by white
\* space outside string literals only: without that white space it is the
\* compact text, and it reads as the same object.  For an object with
\* keys, a newline follows the opening brace and precedes the closing one
\* and every top-level pair starts a line, behind two spaces.
RECURSIVE StripSpace(_, _, _)
StripSpace(txt, p, inString) ==
  IF p > Len(txt) THEN <<>>
  ELSE IF inString
  THEN IF txt[p] = Backslash /\ p < Len(txt)
       THEN <<txt[p], txt[p + 1]>> \o StripSpace(txt, p + 2, TRUE)
       ELSE <<txt[p]>> \o StripSpace(txt, p + 1, txt[p] # Quote)
  ELSE IF txt[p] \in WhiteSpace THEN StripSpace(txt, p + 1, FALSE)
  ELSE <<txt[p]>> \o StripSpace(txt, p + 1, txt[p] = Quote)
PairLines(txt) ==
  {p \in 1..(Len(txt) - 2) :
     txt[p] = Newline /\ txt[p + 1] = IndentUnit /\ txt[p + 2] = Quote}
C22_IndentIsFormatting ==
  Success =>
    /\ StripSpace(ret.text, 1, FALSE) = buf
    /\ Parse(buf).ok /\ Parse(ret.text).v = Parse(buf).v
    /\ Len(claves) > 0 =>
         /\ ret.text[1] = "{" /\ ret.text[2] = Newline
         /\ ret.text[Len(ret.text)] = "}" /\ ret.text[Len(ret.text) - 1] = Newline
         /\ Cardinality(PairLines(ret.text)) = Len(claves)
         /\ \A k \in 1..Len(claves) :
              Stated(claves[k]) =>
                Contains(ret.text, <<Newline, IndentUnit>> \o ClaimedLiteral(claves[k])
                                     \o <<":", Space>>)

\* C22 witness: a text has been returned whose values are a string of one
\* blank and another string.
C22_Witness ==
  /\ Success /\ Len(claves) = 2
  /\ \E k \in DOMAIN datos : datos[k] = GoString(<<Space>>)

\* C23: every invocation of OrdenarJSON ends: once called it reaches the
\* return of a text or of an error, also when a value of the mapping holds
\* itself.
C23_Terminates == [](pc # "idle" => <>(pc = "done"))

\* C23 witness: a call on a map with a value that holds itself has returned
\* an error.
C23_Witness ==
  /\ Done /\ ret.err = "UnsupportedValueError"
  /\ \E k \in DOMAIN datos : datos[k].type = "cycle"

\* C24: a text that repeats a top-level key is not an error: the call
\* succeeds, the output has one member for each distinct key of the text, and
\* the member of a key holds what the last occurrence of the key in the text
\* decodes to.
RepeatsKey == IsText /\ IsObjectText(input.text) /\ ~NoRepeatedKey(InKeys)
LastOccurrence(keys, k) ==
  CHOOSE j \in 1..Len(keys) :
    keys[j] = k /\ \A h \in (j + 1)..Len(keys) : keys[h] # k
C24_RepeatedKeyLastWins ==
  (Done /\ IsText) =>
    LET in == Parse(input.text)
        inKeys == TreeKeys(in.v)
        out == Parse(ret.text)
        outKeys == TreeKeys(out.v)
    IN  (in.ok /\ in.v.type = "object" /\ ~NoRepeatedKey(inKeys)) =>
          /\ ret.err = ErrNil
          /\ out.ok /\ out.v.type = "object"
          /\ NoRepeatedKey(outKeys)
          /\ Len(outKeys) = Cardinality(Range2(inKeys))
          /\ Range2(outKeys) = Range2(inKeys)
          /\ \A j \in 1..Len(outKeys) :
               Decode(out.v.members[j][2])
                 = Decode(in.v.members[LastOccurrence(inKeys, outKeys[j])][2])
\* A key written twice, around another key, with two different values.
C24_Witness ==
  /\ Success /\ RepeatsKey
  /\ Len(InKeys) = 3 /\ Len(OutKeys) = 2 /\ InKeys[1] = InKeys[3]
  /\ Decode(InTree.members[1][2]) # Decode(InTree.members[3][2])

\* C25: the map a caller passes to OrdenarJSON or to
\* OrdenarMapaComoDocumentoMetadata is the map the function works on (datos
\* is the caller's map, not a copy), and at every point of the call and at its
\* return, with a text or with an error, it has the keys and the values it had
\* when the call was made.
CallerMap == input.m
C25_CallerMapUntouched ==
  (IsMap /\ pc # "idle") => datos = CallerMap
\* A call through the wrapper that fails on its third value after writing
\* two pairs.
C25_Witness ==
  /\ Done /\ IsMap /\ fns = <<"OrdenarMapaComoDocumentoMetadata">>
  /\ ret.err # ErrNil /\ i = 3 /\ Len(buf) > 1
  /\ Cardinality(DOMAIN datos) = 3

\* C26: when at most one key of the mapping is absent from OrdenCampos, the
\* ranks present are pairwise distinct, so whatever order the range visited
\* the keys in and whatever the sort did with it, the sorted key sequence is
\* the one sequence the content fixes (the table keys by position in the
\* table, then the key outside it), and a second call on the same input
\* returns the same result.
AtMostOneUnranked(S) == Cardinality({k \in S : ~InTable(k)}) <= 1
RankOf(k) == IF InTable(k) THEN TableRank(k) ELSE Len(OrdenCampos)
ByRank(S) ==
  CHOOSE q \in [1..Cardinality(S) -> S] :
    \A a, b \in 1..Cardinality(S) : a < b => RankOf(q[a]) < RankOf(q[b])
C26_ContentFixesOrder ==
  AtMostOneUnranked(DOMAIN datos) =>
    /\ \A a, b \in DOMAIN datos : a # b => obtenerOrdenCampo(a) # obtenerOrdenCampo(b)
    /\ (pc \in {"encode", "indent"} \/ (Done /\ "sort" \in ran)) =>
         claves = ByRank(DOMAIN datos)
    /\ Success => OutKeys = ByRank(DOMAIN datos)
    /\ (Done /\ prev # NoResult) => ret = prev
\* Three keys, one of them outside the table; a second call on the same
\* input has returned.
C26_Witness ==
  /\ Success /\ prev # NoResult
  /\ Len(claves) = 3 /\ Cardinality({k \in DOMAIN datos : ~InTable(k)}) = 1
  /\ ~InTable(claves[3])

\* C27: OrdenarJSON is idempotent on inputs with at most one key absent from
\* OrdenCampos: when it has returned a text t for such an input, OrdenarJSON(t)
\* succeeds and its text has the keys of t in the same sequence, each with
\* the value it has in t.
OnResultado == Len(fns) = 2 /\ fns[2] = "OrdenarJSON(resultado)"
PrevTree == Parse(prev.text).v
C27_Idempotent ==
  (Done /\ OnResultado /\ AtMostOneUnranked(Range2(TreeKeys(PrevTree)))) =>
    /\ ret.err = ErrNil
    /\ OutKeys = TreeKeys(PrevTree)
    /\ \A j \in 1..Len(OutKeys) :
         JSONValue(OutTree.members[j][2]) = JSONValue(PrevTree.members[j][2])

\* C28: OrdenarJSON drops no key: every key of the input is in the output, and
\* a key whose value is the empty string, null, false, zero, an empty array
\* or an empty object stands in the output with exactly that value.  Keys are
\* dropped by OrdenarDocumentoMetadata alone, before it calls OrdenarJSON, and
\* those are the tags of the fields equal to the empty string, no others.
EmptyTrees == {TStr(<<>>), NullTree, TBool(FALSE), TNum("0"), TArr(<<>>), TObj(<<>>)}
EmptyTreeOf(v) ==
  CASE v = GoString(<<>>) -> TStr(<<>>)
    [] v = GoNil -> NullTree
    [] v = GoBool(FALSE) -> TBool(FALSE)
    [] v = GoFloat(<<0, 0>>) -> TNum("0")
    [] v = GoInt("0") -> TNum("0")
    [] v = GoSlice(<<>>) -> TArr(<<>>)
    [] v = GoMap(NilMap) -> TObj(<<>>)
    [] OTHER -> Blank("none")
C28_NothingFiltered ==
  Success =>
    LET out == OutTree
        keys == TreeKeys(out)
        valueOf(k) == out.members[CHOOSE j \in 1..Len(keys) : keys[j] = k][2]
    IN  /\ Range2(keys) = InputKeySet
        /\ Range2(keys) = DOMAIN datos
        /\ IsMap => \A k \in DOMAIN input.m :
                      EmptyTreeOf(input.m[k]) \in EmptyTrees =>
                        valueOf(k) = EmptyTreeOf(input.m[k])
        /\ IsText => LET in == InTree IN
                     \A k \in Range2(TreeKeys(in)) :
                       LastMember(in, k) \in EmptyTrees => valueOf(k) = LastMember(in, k)
        /\ IsDocumento =>
             Range2(keys) = {DocumentMetadataTags[f] : f \in FilledFields}
\* A map of three keys holding the empty string, nil and false has been
\* written.
C28_Witness ==
  /\ Success /\ IsMap /\ fns = <<"OrdenarJSON">>
  /\ {datos[k] : k \in DOMAIN datos} = {GoString(<<>>), GoNil, GoBool(FALSE)}
  /\ Len(OutKeys) = 3

\* C29: the JSON tags of DocumentMetadata are entries of OrdenCampos and the
\* fields are declared in the order of the table; so the map
\* OrdenarDocumentoMetadata builds holds table keys only, the call never
\* ends with an error, a second execution on the same record returns the
\* same text, and the record with every field empty gives {}.
C29_DocumentoInTable ==
  /\ (pc = "idle" \/ IsDocumento) =>
       /\ \A f \in 1..Len(DocumentMetadataTags) : InTable(DocumentMetadataTags[f])
       /\ \A f \in 1..(Len(DocumentMetadataTags) - 1) :
            TableRank(DocumentMetadataTags[f]) < TableRank(DocumentMetadataTags[f + 1])
  /\ (IsDocumento /\ pc # "idle") =>
       /\ \A k \in DOMAIN datos : InTable(k) /\ obtenerOrdenCampo(k) < Len(OrdenCampos)
       /\ \A j \in 1..Len(claves) : InTable(claves[j])
  /\ (IsDocumento /\ Done) =>
       /\ ret.err = ErrNil
       /\ prev # NoResult => ret = prev
       /\ metadata = NoMetadata => ret.text = EmptyObjectText
       /\ LET keys == OutKeys IN
          /\ \A j \in 1..Len(keys) : InTable(keys[j])
          /\ keys = SelectSeq(DocumentMetadataTags, LAMBDA t : t \in DOMAIN datos)
\* A record with three fields set has been written a second time.
C29_Witness ==
  /\ Done /\ IsDocumento /\ prev # NoResult
  /\ Cardinality(FilledFields) = 3 /\ Len(OutKeys) = 3

\* C30: the text path and the mapping path have the same possible outcomes.
\* Once the text is decoded, every order in which the range may visit the
\* keys of the mapping and every outcome of the sort is possible on the text
\* path, whatever the order of the keys in the text; the result of the call
\* on the text is a possible result of the call on the mapping it decodes
\* to; and the two calls return the same keys with the same values, each in
\* an order of nondecreasing rank (the same text when at most one key is
\* outside the table).
OnDecoded == Len(fns) = 2 /\ fns[2] = "OrdenarJSON(datos)"
====
